---- MODULE Spec2Model ----
(***************************************************************************)
(* A model of the daily-habit-tracker: the SQLite store of                 *)
(* src/database.py (HabitDatabase) and the metrics functions of            *)
(* src/metrics.py (MetricsCalculator).                                     *)
(*                                                                         *)
(* Dates.  A calendar date is its proleptic Gregorian ordinal, as          *)
(* datetime.date.toordinal gives it.  A log_date value is a record         *)
(* [type, ord]: type "date" is a datetime.date object, type "str" is the   *)
(* ISO string 'YYYY-MM-DD' sqlite3 stores and returns for it (the          *)
(* connection is opened without detect_types, so DATE columns come back as *)
(* str), and type "none" is None.  A date never equals a string.           *)
(*                                                                         *)
(* Booleans.  sqlite3 stores a Python bool as the integer 1 or 0, and in   *)
(* Python True == 1 and False == 0, so `completed` is 0 or 1 throughout.   *)
(***************************************************************************)
EXTENDS Integers, Sequences, FiniteSets, Bags, TLC

VARIABLES
    habits,      \* table habits: [rows, seq], seq the last AUTOINCREMENT id given
    habit_logs,  \* table habit_logs: a bag (multiset) of rows
    today,       \* the ordinal date.today() returns
    logged,      \* history: (habit, day) -> the value of its last log_habit call
    soft_deleted,\* history: the ids of the rows delete_habit was called for
    in_logs,     \* the log list handed to the metrics functions
    ret          \* the record of the last operation: its name, arguments, result

vars == <<habits, habit_logs, logged, soft_deleted, today, in_logs, ret>>

(***************************************************************************)
(* Bounds of the model.                                                    *)
(***************************************************************************)
MaxDate == 3      \* the dates of the model are Day0 .. Day0 + MaxDate
MaxLen == 3       \* longest log list of one habit handed to calculate_streak
MaxAllLen == 2    \* longest log list of several habits handed to the six functions
MaxHabits == 2    \* rows the habits table can get
MaxLogs == 2      \* rows the habit_logs table can get
MaxUsers == 4     \* users on the friends leaderboard

(***************************************************************************)
(* The calendar (datetime.date of the standard library).                   *)
(***************************************************************************)
IsLeap(y) == (y % 4 = 0) /\ ((y % 100 # 0) \/ (y % 400 = 0))

DaysInMonth(y, m) ==
    IF m = 2 THEN (IF IsLeap(y) THEN 29 ELSE 28)
    ELSE IF m \in {4, 6, 9, 11} THEN 30 ELSE 31

DaysBeforeYear(y) ==
    LET p == y - 1 IN p * 365 + (p \div 4) - (p \div 100) + (p \div 400)

RECURSIVE DaysBeforeMonth(_, _)
DaysBeforeMonth(y, m) ==
    IF m = 1 THEN 0 ELSE DaysBeforeMonth(y, m - 1) + DaysInMonth(y, m - 1)

\* date(y, m, d).toordinal()
Ordinal(y, m, d) == DaysBeforeYear(y) + DaysBeforeMonth(y, m) + d

\* The first date of the model: Saturday 2023-12-30, so that the dates of the
\* model cross a week, a month and a year boundary (2024-01-01 is a Monday).
Day0 == Ordinal(2023, 12, 30)

Dates == Day0 .. (Day0 + MaxDate)

\* The day the model starts on: the day before its last date, so that the
\* clock can move on once and there are dates before and after today.
FirstToday == Day0 + MaxDate - 1

Years == {2023, 2024}

\* date.fromordinal(n).year and .month
YearOf(n) == CHOOSE y \in Years : Ordinal(y, 1, 1) <= n /\ n < Ordinal(y + 1, 1, 1)

MonthOf(n) ==
    LET y == YearOf(n)
    IN CHOOSE m \in 1..12 :
          /\ Ordinal(y, m, 1) <= n
          /\ n < Ordinal(y, m, 1) + DaysInMonth(y, m)

\* date.weekday(): Monday is 0; ordinal 1 (0001-01-01) is a Monday
Weekday(n) == (n + 6) % 7

(***************************************************************************)
(* log_date values.                                                        *)
(***************************************************************************)
DateObj(n) == [type |-> "date", ord |-> n]

IsoStr(n) == [type |-> "str", ord |-> n]

None == [type |-> "none", ord |-> 0]

\* date.isoformat(), and what sqlite3's default adapter stores for a date
isoformat(d) == [type |-> "str", ord |-> d.ord]

\* date.fromisoformat(s)
fromisoformat(s) == [type |-> "date", ord |-> s.ord]

\* `if isinstance(log_date, str): log_date = date.fromisoformat(log_date)`
AsDate(ld) == IF ld.type = "str" THEN fromisoformat(ld) ELSE ld

\* Python's truth value of a stored `completed`
Truthy(c) == c # 0

Max(a, b) == IF a >= b THEN a ELSE b

(***************************************************************************)
(* MetricsCalculator (src/metrics.py).  A log is a record                  *)
(* [habit_id, log_date, completed].                                        *)
(***************************************************************************)

\* CountCompleted counting every entry, completed or not.
CountEntries(logs) == Len(logs)

\* sum(1 for log in logs if log['completed'])
RECURSIVE CountCompleted(_)
CountCompleted(logs) ==
    IF logs = <<>> THEN 0
    ELSE (IF Truthy(Head(logs).completed) THEN 1 ELSE 0) + CountCompleted(Tail(logs))

\* CompletedLogs without its filter: `if log['completed']` left out.
CompletedLogsUnfiltered(hlogs) == hlogs

\* [log for log in habit_logs if log['completed']]
CompletedLogs(hlogs) == SelectSeq(hlogs, LAMBDA log : Truthy(log.completed))

\* One insertion of a stable descending sort: x goes after every element whose
\* key is greater than or equal to its own.
RECURSIVE InsertDesc(_, _)
InsertDesc(x, s) ==
    IF s = <<>> THEN <<x>>
    ELSE IF Head(s).log_date.ord >= x.log_date.ord
         THEN <<Head(s)>> \o InsertDesc(x, Tail(s))
         ELSE <<x>> \o s

\* SortedDesc without the sort: the logs in the order they were given.
LeftUnsorted(logs) == logs

\* SortedDesc without reverse=True: a stable ascending sort.
RECURSIVE InsertAsc(_, _)
InsertAsc(x, s) ==
    IF s = <<>> THEN <<x>>
    ELSE IF Head(s).log_date.ord <= x.log_date.ord
         THEN <<Head(s)>> \o InsertAsc(x, Tail(s))
         ELSE <<x>> \o s

RECURSIVE SortedAsc(_)
SortedAsc(logs) ==
    IF logs = <<>> THEN <<>>
    ELSE InsertAsc(logs[Len(logs)], SortedAsc(SubSeq(logs, 1, Len(logs) - 1)))

\* sorted(logs, key=lambda x: x['log_date'], reverse=True): stable, so equal
\* keys keep the order of the input.  ISO strings order as their dates do.
RECURSIVE SortedDesc(_)
SortedDesc(logs) ==
    IF logs = <<>> THEN <<>>
    ELSE InsertDesc(logs[Len(logs)], SortedDesc(SubSeq(logs, 1, Len(logs) - 1)))

\* reversed(s)
RECURSIVE Reversed(_)
Reversed(s) == IF s = <<>> THEN <<>> ELSE Reversed(Tail(s)) \o <<Head(s)>>

\* CurrentWalk with `else: break` for `elif log_date < check_date: break`: the
\* walk stops at the first log that is not on the expected date.
RECURSIVE CurrentWalkStopAtMismatch(_, _, _, _)
CurrentWalkStopAtMismatch(sorted_logs, i, check_date, current_streak) ==
    IF i > Len(sorted_logs) THEN current_streak
    ELSE IF AsDate(sorted_logs[i].log_date).ord = check_date
         THEN CurrentWalkStopAtMismatch(sorted_logs, i + 1, check_date - 1,
                                        current_streak + 1)
         ELSE current_streak

\* The loop of the current streak, from log i on, with the loop's variables.
RECURSIVE CurrentWalk(_, _, _, _)
CurrentWalk(sorted_logs, i, check_date, current_streak) ==
    IF i > Len(sorted_logs) THEN current_streak
    ELSE LET log_date == AsDate(sorted_logs[i].log_date).ord
         IN IF log_date = check_date
            THEN CurrentWalk(sorted_logs, i + 1, check_date - 1, current_streak + 1)
            ELSE IF log_date < check_date
                 THEN current_streak
                 ELSE CurrentWalk(sorted_logs, i + 1, check_date, current_streak)

\* LongestScan with `temp_streak = 0` for `temp_streak = 1` after a gap.
RECURSIVE LongestScanResetZero(_, _, _, _, _)
LongestScanResetZero(asc_logs, i, longest_streak, temp_streak, prev_date) ==
    IF i > Len(asc_logs)
    THEN [longest_streak |-> longest_streak, temp_streak |-> temp_streak]
    ELSE LET log_date == AsDate(asc_logs[i].log_date)
         IN IF prev_date = None \/ log_date.ord - prev_date.ord = 1
            THEN LongestScanResetZero(asc_logs, i + 1,
                     Max(longest_streak, temp_streak + 1), temp_streak + 1, log_date)
            ELSE LongestScanResetZero(asc_logs, i + 1, longest_streak, 0, log_date)

\* The loop of the longest streak over the ascending logs, from log i on;
\* prev_date is None before the first log.  The loop's variables at its end.
RECURSIVE LongestScan(_, _, _, _, _)
LongestScan(asc_logs, i, longest_streak, temp_streak, prev_date) ==
    IF i > Len(asc_logs)
    THEN [longest_streak |-> longest_streak, temp_streak |-> temp_streak]
    ELSE LET log_date == AsDate(asc_logs[i].log_date)
         IN IF prev_date = None \/ log_date.ord - prev_date.ord = 1
            THEN LongestScan(asc_logs, i + 1, Max(longest_streak, temp_streak + 1),
                             temp_streak + 1, log_date)
            ELSE LongestScan(asc_logs, i + 1, longest_streak, 1, log_date)

\* StreakResult returning the length of the last run, temp_streak, as the
\* longest streak.
StreakResultLastRun(current_streak, scan) ==
    [current_streak |-> current_streak, longest_streak |-> scan.temp_streak]

\* The value calculate_streak returns from the results of its two loops.
StreakResult(current_streak, scan) ==
    [current_streak |-> current_streak,
     longest_streak |-> Max(scan.longest_streak, current_streak)]

\* calculate_streak reading the system date whatever current_date is.
calculate_streak_from_today(hlogs, current_date) ==
    IF hlogs = <<>> THEN [current_streak |-> 0, longest_streak |-> 0]
    ELSE LET sorted_logs == SortedDesc(CompletedLogs(hlogs))
         IN IF sorted_logs = <<>> THEN [current_streak |-> 0, longest_streak |-> 0]
            ELSE StreakResult(CurrentWalk(sorted_logs, 1, today, 0),
                              LongestScan(Reversed(sorted_logs), 1, 0, 0, None))

\* calculate_streak(habit_logs, current_date); current_date None means today.
\* (hlogs is the parameter habit_logs.)
calculate_streak(hlogs, current_date) ==
    IF hlogs = <<>> THEN [current_streak |-> 0, longest_streak |-> 0]
    ELSE LET asOf == IF current_date = None THEN DateObj(today) ELSE current_date
             sorted_logs == SortedDesc(CompletedLogs(hlogs))
         IN IF sorted_logs = <<>> THEN [current_streak |-> 0, longest_streak |-> 0]
            ELSE StreakResult(CurrentWalk(sorted_logs, 1, asOf.ord, 0),
                              LongestScan(Reversed(sorted_logs), 1, 0, 0, None))

(***************************************************************************)
(* Percentages.  A Python float is modelled by the rational it rounds,     *)
(* kept as a reduced fraction [num, den]; two of the small quotients the   *)
(* model forms are the same float exactly when they are the same rational. *)
(***************************************************************************)
RECURSIVE Gcd(_, _)
Gcd(a, b) == IF b = 0 THEN a ELSE Gcd(b, a % b)

Frac(n, d) == LET g == Gcd(n, d) IN [num |-> n \div g, den |-> d \div g]

Zero == [num |-> 0, den |-> 1]

\* (a / b) * 100, for a >= 0 and b > 0
Percent(a, b) == Frac(100 * a, b)

\* calculate_daily_completion dividing by the number of habits in logs where
\* it should divide by len(logs).
calculate_daily_completion_per_habit(logs) ==
    IF logs = <<>> THEN Zero
    ELSE Percent(CountCompleted(logs),
                 Cardinality({logs[i].habit_id : i \in DOMAIN logs}))

\* calculate_daily_completion(logs)
calculate_daily_completion(logs) ==
    IF logs = <<>> THEN Zero ELSE Percent(CountCompleted(logs), Len(logs))

\* calculate_consistency counting only the completed entries dated within the
\* `days` days that end today.
calculate_consistency_in_window(hlogs, days) ==
    IF hlogs = <<>> THEN Zero
    ELSE IF days > 0
         THEN Percent(CountCompleted(SelectSeq(hlogs, LAMBDA log :
                          /\ AsDate(log.log_date).ord > today - days
                          /\ AsDate(log.log_date).ord <= today)),
                      days)
         ELSE Zero

\* calculate_consistency dividing by len(habit_logs) where it should divide
\* by days.
calculate_consistency_per_entry(hlogs, days) ==
    IF hlogs = <<>> THEN Zero
    ELSE IF days > 0 THEN Percent(CountCompleted(hlogs), Len(hlogs)) ELSE Zero

\* calculate_consistency(habit_logs, days)
calculate_consistency(hlogs, days) ==
    IF hlogs = <<>> THEN Zero
    ELSE IF days > 0 THEN Percent(CountCompleted(hlogs), days) ELSE Zero

\* WeekStart with the week starting on Sunday.
WeekStartSunday(current_date) == current_date - ((Weekday(current_date) + 1) % 7)

\* week_start = current_date - timedelta(days=current_date.weekday())
WeekStart(current_date) == current_date - Weekday(current_date)

\* [log for log in all_logs if log['log_date'] == current_date]: a date object
\* equals a date object of the same day, and never a string.
DayLogs(all_logs, current_date) ==
    SelectSeq(all_logs, LAMBDA log : log.log_date = DateObj(current_date))

\* The while loop of calculate_weekly_stats from current_date on: weekly_data
\* maps a week key to its [total, completed]; a key comes into being only when
\* a day of its week has logs.
RECURSIVE WeeklyData(_, _, _, _)
WeeklyData(all_logs, current_date, end_date, weekly_data) ==
    IF current_date > end_date THEN weekly_data
    ELSE LET week_key == isoformat(DateObj(WeekStart(current_date)))
             day_logs == DayLogs(all_logs, current_date)
             old == IF week_key \in DOMAIN weekly_data THEN weekly_data[week_key]
                    ELSE [total |-> 0, completed |-> 0]
             new == [total |-> old.total + Len(day_logs),
                     completed |-> old.completed + CountCompleted(day_logs)]
         IN WeeklyData(all_logs, current_date + 1, end_date,
                IF day_logs # <<>>
                THEN [k \in (DOMAIN weekly_data) \cup {week_key} |->
                         IF k = week_key THEN new ELSE weekly_data[k]]
                ELSE weekly_data)

\* calculate_weekly_stats(all_logs, start_date, end_date): a dict from week key
\* to percentage; start_date and end_date are ordinals of date objects.
calculate_weekly_stats(all_logs, start_date, end_date) ==
    LET weekly_data == WeeklyData(all_logs, start_date, end_date, <<>>)
    IN [week \in DOMAIN weekly_data |->
           IF weekly_data[week].total > 0
           THEN Percent(weekly_data[week].completed, weekly_data[week].total)
           ELSE Zero]

\* next((l for l in habit_logs if l['log_date'] == current), None)
FirstLogOn(hlogs, current) ==
    LET day_logs == DayLogs(hlogs, current)
    IN IF day_logs = <<>> THEN None ELSE Head(day_logs)

\* The while loop of get_habit_completion_trend from `current` on.
RECURSIVE TrendFrom(_, _, _)
TrendFrom(hlogs, current, end_date) ==
    IF current > end_date THEN <<>>
    ELSE LET log == FirstLogOn(hlogs, current)
         IN <<[date |-> DateObj(current),
               completed |-> IF log # None THEN log.completed ELSE 0]>>
            \o TrendFrom(hlogs, current + 1, end_date)

\* get_habit_completion_trend(habit_logs, days)
get_habit_completion_trend(hlogs, days) == TrendFrom(hlogs, today - (days - 1), today)

\* MonthLogs without the test of the year.
MonthLogsOfAnyYear(all_logs, month, year) ==
    SelectSeq(all_logs, LAMBDA log :
        \/ /\ log.log_date.type = "date"
           /\ MonthOf(log.log_date.ord) = month
        \/ /\ log.log_date.type = "str"
           /\ MonthOf(fromisoformat(log.log_date).ord) = month)

\* The filter of calculate_monthly_summary: the logs of (month, year), whether
\* their log_date is a date or an ISO string.
MonthLogs(all_logs, month, year) ==
    SelectSeq(all_logs, LAMBDA log :
        \/ /\ log.log_date.type = "date"
           /\ MonthOf(log.log_date.ord) = month
           /\ YearOf(log.log_date.ord) = year
        \/ /\ log.log_date.type = "str"
           /\ MonthOf(fromisoformat(log.log_date).ord) = month
           /\ YearOf(fromisoformat(log.log_date).ord) = year)

\* calculate_monthly_summary(all_logs, month, year)
calculate_monthly_summary(all_logs, month, year) ==
    LET month_logs == MonthLogs(all_logs, month, year)
        dates == {AsDate(month_logs[i].log_date) : i \in DOMAIN month_logs}
        total_completions == CountCompleted(month_logs)
        total_possible == Len(month_logs)
    IN IF month_logs = <<>>
       THEN [total_habits |-> 0, total_completions |-> 0,
             completion_rate |-> Zero, days_tracked |-> 0]
       ELSE [total_habits |->
                 Cardinality({month_logs[i].habit_id : i \in DOMAIN month_logs}),
             total_completions |-> total_completions,
             completion_rate |->
                 IF total_possible > 0 THEN Percent(total_completions, total_possible)
                 ELSE Zero,
             days_tracked |-> Cardinality(dates)]

(***************************************************************************)
(* The inputs of the metrics functions.                                    *)
(***************************************************************************)
LogTypes == {"date", "str"}

LogHabitIds == {1, 2}

\* The logs of one habit whose dates are all of type t.
HabitLogEntries(t) ==
    {[habit_id |-> 1, log_date |-> [type |-> t, ord |-> d], completed |-> c] :
        d \in Dates, c \in {0, 1}}

SeqsUpTo(S, n) == UNION {[1..k -> S] : k \in 0..n}

\* The arguments current_date takes: a date of the model, or None.
CurrentDates == {DateObj(d) : d \in Dates} \cup {None}

\* ret when no result is held: before a call, and once the caller has taken
\* the result of the last one.
NoCall == [op |-> "none"]

Idle == ret = NoCall

\* The caller takes the result of the call.
Return ==
    /\ ~Idle
    /\ ret' = NoCall
    /\ UNCHANGED <<habits, habit_logs, logged, soft_deleted, today, in_logs>>

\* The store _create_tables leaves: both tables empty, no id given yet.
EmptyStore ==
    /\ habits = [rows |-> {}, seq |-> 0]
    /\ habit_logs = EmptyBag
    /\ logged = <<>>
    /\ soft_deleted = {}

\* The system clock moves on to the next day.
Tick ==
    /\ Idle
    /\ today < Day0 + MaxDate
    /\ today' = today + 1
    /\ UNCHANGED <<habits, habit_logs, logged, soft_deleted, in_logs, ret>>

(***************************************************************************)
(* calculate_streak applied to the log list of one habit.                  *)
(***************************************************************************)
InitStreak ==
    /\ EmptyStore
    /\ today = FirstToday
    /\ \E t \in LogTypes : in_logs \in SeqsUpTo(HabitLogEntries(t), MaxLen)
    /\ ret = NoCall

CallStreak(current_date) ==
    /\ Idle
    /\ ret' = [op |-> "calculate_streak", current_date |-> current_date,
               value |-> calculate_streak(in_logs, current_date)]
    /\ UNCHANGED <<habits, habit_logs, logged, soft_deleted, today, in_logs>>

NextStreak ==
    \/ \E current_date \in CurrentDates : CallStreak(current_date)
    \/ Return
    \/ Tick

SpecStreak == InitStreak /\ [][NextStreak]_vars

(***************************************************************************)
(* What the claims about calculate_streak speak of.                        *)
(***************************************************************************)
StreakCalled == ret.op = "calculate_streak"

\* The reference date of the call ret records.
RetAsOf == IF ret.current_date = None THEN today ELSE ret.current_date.ord

LogDay(log) == AsDate(log.log_date).ord

\* Day d has a completed entry in logs.
HasCompleted(logs, d) ==
    \E i \in DOMAIN logs : LogDay(logs[i]) = d /\ Truthy(logs[i].completed)

\* At most one entry per date.
OnePerDate(logs) ==
    \A i, j \in DOMAIN logs : LogDay(logs[i]) = LogDay(logs[j]) => i = j

\* The n days that end on day e all have a completed entry.
IsRun(logs, e, n) == \A k \in 0..(n - 1) : HasCompleted(logs, e - k)

SetMax(S) == CHOOSE x \in S : \A y \in S : y <= x

\* The largest k such that asOf, asOf-1, ..., asOf-(k-1) are all completed.
RunEndingAt(logs, asOf) == SetMax({n \in 0..Len(logs) : IsRun(logs, asOf, n)})

\* The longest run of consecutive completed days anywhere in logs.
LongestRun(logs) ==
    SetMax({0} \cup {RunEndingAt(logs, LogDay(logs[i])) : i \in DOMAIN logs})

\* logs without its entry i, and logs with entry e put in before position i
RemoveAt(logs, i) == SubSeq(logs, 1, i - 1) \o SubSeq(logs, i + 1, Len(logs))

InsertAt(logs, i, e) == SubSeq(logs, 1, i - 1) \o <<e>> \o SubSeq(logs, i, Len(logs))

\* The type of the dates of logs ("date" for the empty list).
TypeOf(logs) == IF logs = <<>> THEN "date" ELSE logs[1].log_date.type

\* A log of habit h on day d, dated as the entries of logs are.
LogLike(logs, h, d, c) ==
    [habit_id |-> h, log_date |-> [type |-> TypeOf(logs), ord |-> d], completed |-> c]

\* A completed log on day d.
Done(d) == [habit_id |-> 1, log_date |-> DateObj(d), completed |-> 1]

\* C1: calculate_streak returns longest_streak >= current_streak, and both are
\* non-negative integers, for every log list and every reference date.
C1_LongestAtLeastCurrent ==
    StreakCalled =>
        /\ ret.value.current_streak \in Nat
        /\ ret.value.longest_streak \in Nat
        /\ ret.value.longest_streak >= ret.value.current_streak

\* A call whose current streak is 2 days while a later, single completed day
\* lies after the reference date.
C1_Witness ==
    /\ StreakCalled
    /\ ret.value.current_streak = 2
    /\ HasCompleted(in_logs, RetAsOf + 2)
    /\ ~HasCompleted(in_logs, RetAsOf + 1)

\* C2: with at most one entry per date, current_streak is the largest k such
\* that asOf, asOf-1, ..., asOf-(k-1) all have a completed entry: 0 when asOf
\* itself has none, and k when the first gap is at asOf-k (D-4, D-3, D-1, D
\* give 2).
C2_CurrentIsRunEndingAtAsOf ==
    /\ StreakCalled /\ OnePerDate(in_logs) =>
          /\ ret.value.current_streak = RunEndingAt(in_logs, RetAsOf)
          /\ ~HasCompleted(in_logs, RetAsOf) => ret.value.current_streak = 0
          /\ \A k \in 0..Len(in_logs) :
                IsRun(in_logs, RetAsOf, k) /\ ~HasCompleted(in_logs, RetAsOf - k)
                   => ret.value.current_streak = k
    /\ calculate_streak(<<Done(Day0), Done(Day0 + 1), Done(Day0 + 3), Done(Day0 + 4)>>,
                        DateObj(Day0 + 4)).current_streak = 2

\* A call on three completed days D-3, D-1, D: the gap at D-2 stops the count
\* at 2.
C2_Witness ==
    /\ StreakCalled /\ OnePerDate(in_logs)
    /\ Len(in_logs) = 3
    /\ HasCompleted(in_logs, RetAsOf)
    /\ HasCompleted(in_logs, RetAsOf - 1)
    /\ HasCompleted(in_logs, RetAsOf - 3)
    /\ ret.value.current_streak = 2

\* C3: with at most one entry per date, longest_streak is the length of the
\* longest run of consecutive calendar dates that all have a completed entry
\* (five consecutive days D-4..D with asOf = D give current = longest = 5).
C3_LongestIsLongestRun ==
    /\ StreakCalled /\ OnePerDate(in_logs) =>
          ret.value.longest_streak = LongestRun(in_logs)
    /\ calculate_streak(<<Done(Day0), Done(Day0 + 1), Done(Day0 + 2), Done(Day0 + 3),
                          Done(Day0 + 4)>>, DateObj(Day0 + 4))
          = [current_streak |-> 5, longest_streak |-> 5]

\* A call on a single completed day followed, after a gap, by a run of two,
\* none of them part of the current streak.
C3_Witness ==
    /\ StreakCalled /\ OnePerDate(in_logs)
    /\ Len(in_logs) = 3
    /\ \E d \in Dates : /\ HasCompleted(in_logs, d)
                        /\ HasCompleted(in_logs, d + 2)
                        /\ HasCompleted(in_logs, d + 3)
    /\ ret.value.current_streak = 0
    /\ ret.value.longest_streak = 2

\* The completed entries of logs.
CompletedEntries(logs) == {i \in DOMAIN logs : Truthy(logs[i].completed)}

\* C4: calculate_streak returns {0, 0} for every asOf when the input has no
\* completed entry (empty, or only completed = false entries), and
\* current = longest = 1 when the only completed entry is dated asOf.
C4_NoCompletedGivesZero ==
    StreakCalled =>
        /\ CompletedEntries(in_logs) = {} =>
              ret.value = [current_streak |-> 0, longest_streak |-> 0]
        /\ (\E i \in DOMAIN in_logs :
               /\ CompletedEntries(in_logs) = {i}
               /\ LogDay(in_logs[i]) = RetAsOf) =>
              ret.value = [current_streak |-> 1, longest_streak |-> 1]

\* A call on a list of two or more entries, none of them completed, one of
\* them dated asOf.
C4_Witness ==
    /\ StreakCalled
    /\ Len(in_logs) >= 2
    /\ CompletedEntries(in_logs) = {}
    /\ \E i \in DOMAIN in_logs : LogDay(in_logs[i]) = RetAsOf
    /\ ret.value = [current_streak |-> 0, longest_streak |-> 0]

\* Entry i of logs is completed and dated after asOf.
IsFutureCompleted(logs, i, asOf) == Truthy(logs[i].completed) /\ LogDay(logs[i]) > asOf

\* logs without its completed entries dated after asOf.
WithoutFuture(logs, asOf) ==
    SelectSeq(logs, LAMBDA log : ~(Truthy(log.completed) /\ LogDay(log) > asOf))

\* C5: completed entries dated after asOf do not count for the current
\* streak: removing any of them, or adding one anywhere in the list, leaves
\* current_streak unchanged.
C5_FutureEntriesIgnoredByCurrent ==
    StreakCalled =>
        /\ \A i \in DOMAIN in_logs :
              IsFutureCompleted(in_logs, i, RetAsOf) =>
                 calculate_streak(RemoveAt(in_logs, i), ret.current_date).current_streak
                    = ret.value.current_streak
        /\ calculate_streak(WithoutFuture(in_logs, RetAsOf),
                            ret.current_date).current_streak
              = ret.value.current_streak
        /\ \A i \in 1..(Len(in_logs) + 1), d \in Dates :
              d > RetAsOf =>
                 calculate_streak(InsertAt(in_logs, i, LogLike(in_logs, 1, d, 1)),
                                  ret.current_date).current_streak
                    = ret.value.current_streak

\* A call whose list has a completed entry after asOf and a current streak of
\* two days.
C5_Witness ==
    /\ StreakCalled
    /\ \E i \in DOMAIN in_logs : IsFutureCompleted(in_logs, i, RetAsOf)
    /\ ret.value.current_streak = 2

\* C6: every streak value calculate_streak returns, longest_streak included,
\* is the length of a run of consecutive completed days that ends at or before
\* asOf, and completed entries dated after asOf never increase longest_streak.
C6_StreaksEndAtOrBeforeAsOf ==
    StreakCalled =>
        /\ \A v \in {ret.value.current_streak, ret.value.longest_streak} :
              v = 0 \/ \E i \in DOMAIN in_logs :
                          LogDay(in_logs[i]) <= RetAsOf /\ IsRun(in_logs, LogDay(in_logs[i]), v)
        /\ ret.value.longest_streak
              <= calculate_streak(WithoutFuture(in_logs, RetAsOf),
                                  ret.current_date).longest_streak

(***************************************************************************)
(* The six metrics functions applied to a log list of one or two habits.   *)
(***************************************************************************)
\* The logs of the habits of LogHabitIds whose dates are all of type t.
AllLogEntries(t) ==
    {[habit_id |-> h, log_date |-> [type |-> t, ord |-> d], completed |-> c] :
        h \in LogHabitIds, d \in Dates, c \in {0, 1}}

\* The arguments `days` of calculate_consistency: none, one, a week, the default.
ConsistencyDays == {0, 1, 7, 30}

\* The arguments `days` of get_habit_completion_trend: windows from no day to
\* all the dates of the model up to today.
TrendDays == 0..(MaxDate + 1)

\* The (start_date, end_date) arguments: every range of the dates of the
\* model, and the empty ranges that end the day before they start.
DateRanges == {r \in Dates \X Dates : r[1] <= r[2] + 1}

\* The (month, year) arguments: the two months of the model, in both years.
MonthArgs == {1, 12}

InitMetrics ==
    /\ EmptyStore
    /\ today = FirstToday
    /\ \E t \in LogTypes : in_logs \in SeqsUpTo(AllLogEntries(t), MaxAllLen)
    /\ ret = NoCall

CallDailyCompletion ==
    /\ Idle
    /\ ret' = [op |-> "calculate_daily_completion",
               value |-> calculate_daily_completion(in_logs)]
    /\ UNCHANGED <<habits, habit_logs, logged, soft_deleted, today, in_logs>>

CallConsistency(days) ==
    /\ Idle
    /\ ret' = [op |-> "calculate_consistency", days |-> days,
               value |-> calculate_consistency(in_logs, days)]
    /\ UNCHANGED <<habits, habit_logs, logged, soft_deleted, today, in_logs>>

CallWeeklyStats(start_date, end_date) ==
    /\ Idle
    /\ ret' = [op |-> "calculate_weekly_stats",
               start_date |-> start_date, end_date |-> end_date,
               value |-> calculate_weekly_stats(in_logs, start_date, end_date)]
    /\ UNCHANGED <<habits, habit_logs, logged, soft_deleted, today, in_logs>>

CallCompletionTrend(days) ==
    /\ Idle
    /\ ret' = [op |-> "get_habit_completion_trend", days |-> days,
               value |-> get_habit_completion_trend(in_logs, days)]
    /\ UNCHANGED <<habits, habit_logs, logged, soft_deleted, today, in_logs>>

CallMonthlySummary(month, year) ==
    /\ Idle
    /\ ret' = [op |-> "calculate_monthly_summary", month |-> month, year |-> year,
               value |-> calculate_monthly_summary(in_logs, month, year)]
    /\ UNCHANGED <<habits, habit_logs, logged, soft_deleted, today, in_logs>>

NextMetrics ==
    \/ CallDailyCompletion
    \/ \E current_date \in CurrentDates : CallStreak(current_date)
    \/ \E days \in ConsistencyDays : CallConsistency(days)
    \/ \E range \in DateRanges : CallWeeklyStats(range[1], range[2])
    \/ \E days \in TrendDays : CallCompletionTrend(days)
    \/ \E month \in MonthArgs, year \in Years : CallMonthlySummary(month, year)
    \/ Return
    \/ Tick

SpecMetrics == InitMetrics /\ [][NextMetrics]_vars

\* The function ret records, applied with the arguments ret records to logs.
Recall(logs) ==
    CASE ret.op = "calculate_daily_completion" -> calculate_daily_completion(logs)
      [] ret.op = "calculate_streak" -> calculate_streak(logs, ret.current_date)
      [] ret.op = "calculate_consistency" -> calculate_consistency(logs, ret.days)
      [] ret.op = "calculate_weekly_stats" ->
            calculate_weekly_stats(logs, ret.start_date, ret.end_date)
      [] ret.op = "get_habit_completion_trend" ->
            get_habit_completion_trend(logs, ret.days)
      [] ret.op = "calculate_monthly_summary" ->
            calculate_monthly_summary(logs, ret.month, ret.year)

MetricsOps ==
    {"calculate_daily_completion", "calculate_streak", "calculate_consistency",
     "calculate_weekly_stats", "get_habit_completion_trend",
     "calculate_monthly_summary"}

\* logs has no entry for habit h on day d; logs has no entry on day d.
NoEntryFor(logs, h, d) ==
    \A i \in DOMAIN logs : ~(logs[i].habit_id = h /\ LogDay(logs[i]) = d)

NoEntryOn(logs, d) == \A i \in DOMAIN logs : LogDay(logs[i]) # d

\* Adding, anywhere in the list, a completed = false entry for (h, d) leaves
\* the result ret records unchanged.
FalseEntryChangesNothing(h, d) ==
    \A i \in 1..(Len(in_logs) + 1) :
        Recall(InsertAt(in_logs, i, LogLike(in_logs, h, d, 0))) = ret.value

\* C7 as claimed: for each of the six metrics functions, adding a
\* completed = false entry for a (habit, date) pair that has no entry leaves
\* the output unchanged.
C7_MissingEqualsFalseForAllSix ==
    ret.op \in MetricsOps =>
        \A h \in LogHabitIds, d \in Dates :
            NoEntryFor(in_logs, h, d) => FalseEntryChangesNothing(h, d)

\* C7 as amended: for calculate_streak, calculate_consistency and
\* get_habit_completion_trend, adding a completed = false entry for a date
\* that has no entry in the list leaves the output unchanged.  (The other
\* three functions count every entry in a denominator or a total.)
C7_MissingEqualsFalseForHabitLogs ==
    ret.op \in {"calculate_streak", "calculate_consistency",
                "get_habit_completion_trend"} =>
        \A h \in LogHabitIds, d \in Dates :
            NoEntryOn(in_logs, d) => FalseEntryChangesNothing(h, d)

\* A consistency call with days > 0 on a list that has a completed entry and
\* a date without any entry.
C7_Witness ==
    /\ ret.op = "calculate_consistency"
    /\ ret.days > 0
    /\ ret.value # Zero
    /\ \E d \in Dates : NoEntryOn(in_logs, d)

(***************************************************************************)
(* HabitDatabase (src/database.py).                                        *)
(*                                                                         *)
(* A row of habits is [id, user_id, is_active]; name, description and      *)
(* created_at are left out (update_habit writes only the first two, and    *)
(* rows are created in the order of created_at, so ORDER BY created_at is  *)
(* the order of the ids).  A row of habit_logs is                          *)
(* [habit_id, log_date, completed], log_date the ISO string and completed  *)
(* the integer sqlite3 stores; the row's own id is read by no operation.   *)
(* habit_logs is a bag, so that two rows of one (habit_id, log_date) can   *)
(* be told from one.                                                       *)
(***************************************************************************)
Users == {"asha", "ben"}

SafetyLimit == 365

DefaultWindow == 6

HabitIds == 1..MaxHabits

\* The rows of habit_logs with their multiplicity taken away.
LogRows == BagToSet(habit_logs)

\* The rows of the bag B that are in the set keep, as a bag.
BagOf(B, keep) == [r \in keep \cap BagToSet(B) |-> CopiesIn(r, B)]

\* How many rows habit_logs has for (habit_id, log_date).
RowCount(habit_id, log_date) ==
    BagCardinality(BagOf(habit_logs,
        {r \in LogRows : r.habit_id = habit_id /\ r.log_date = log_date}))

\* sqlite3's adapters: a date is stored as its ISO string, a bool as 1 or 0.
AdaptDate(d) == IF d.type = "date" THEN isoformat(d) ELSE d

AdaptBool(b) == IF b THEN 1 ELSE 0

\* add_habit(name, description, user_id): a new active row with the next id.
add_habit(user_id) ==
    /\ habits.seq < MaxHabits
    /\ habits' = [rows |-> habits.rows \cup
                             {[id |-> habits.seq + 1, user_id |-> user_id,
                               is_active |-> 1]},
                  seq |-> habits.seq + 1]
    /\ UNCHANGED <<habit_logs, logged, soft_deleted, today, in_logs, ret>>

\* The history after the call delete_habit(habit_id).
SoftDeleted(habit_id) ==
    soft_deleted \cup {h.id : h \in {x \in habits.rows : x.id = habit_id}}

\* delete_habit that also deletes the logs of the habit, as ON DELETE CASCADE
\* would for a deleted row.
delete_habit_and_logs(habit_id) ==
    /\ habits' = [habits EXCEPT !.rows =
                     {IF h.id = habit_id THEN [h EXCEPT !.is_active = 0] ELSE h :
                         h \in habits.rows}]
    /\ habit_logs' = BagOf(habit_logs, {r \in LogRows : r.habit_id # habit_id})
    /\ soft_deleted' = SoftDeleted(habit_id)
    /\ UNCHANGED <<logged, today, in_logs, ret>>

\* delete_habit(habit_id): UPDATE habits SET is_active = 0 WHERE id = ?
delete_habit(habit_id) ==
    /\ habits' = [habits EXCEPT !.rows =
                     {IF h.id = habit_id THEN [h EXCEPT !.is_active = 0] ELSE h :
                         h \in habits.rows}]
    /\ soft_deleted' = SoftDeleted(habit_id)
    /\ UNCHANGED <<habit_logs, logged, today, in_logs, ret>>

\* hard_delete_habit(habit_id): the habit's logs and its row are deleted;
\* AUTOINCREMENT gives its id to no later row.
hard_delete_habit(habit_id) ==
    /\ habit_logs' = BagOf(habit_logs, {r \in LogRows : r.habit_id # habit_id})
    /\ habits' = [habits EXCEPT !.rows = {h \in habits.rows : h.id # habit_id}]
    /\ logged' = [p \in {q \in DOMAIN logged : q[1] # habit_id} |-> logged[p]]
    /\ soft_deleted' = soft_deleted \ {habit_id}
    /\ UNCHANGED <<today, in_logs, ret>>

\* The history after the call log_habit(habit_id, log_date, completed).
Logged(habit_id, log_date, completed) ==
    [p \in (DOMAIN logged) \cup {<<habit_id, log_date.ord>>} |->
        IF p = <<habit_id, log_date.ord>> THEN completed ELSE logged[p]]

\* log_habit with a plain INSERT OR IGNORE: a second log of a (habit, date)
\* keeps the first value.
log_habit_keep_first(habit_id, log_date, completed) ==
    LET key == AdaptDate(log_date)
        conflict == {r \in LogRows : r.habit_id = habit_id /\ r.log_date = key}
        row == [habit_id |-> habit_id, log_date |-> key,
                completed |-> AdaptBool(completed)]
    IN /\ \E h \in habits.rows : h.id = habit_id
       /\ conflict = {} => BagCardinality(habit_logs) < MaxLogs
       /\ habit_logs' = IF conflict = {} THEN habit_logs (+) SetToBag({row})
                        ELSE habit_logs
       /\ logged' = Logged(habit_id, log_date, completed)
       /\ UNCHANGED <<habits, soft_deleted, today, in_logs, ret>>

\* log_habit(habit_id, log_date, completed): INSERT ... ON CONFLICT(habit_id,
\* log_date) DO UPDATE SET completed = ?.  The logged habit is a row of
\* habits, as at the callers (src/app.py 314, 465).
log_habit(habit_id, log_date, completed) ==
    LET key == AdaptDate(log_date)
        conflict == {r \in LogRows : r.habit_id = habit_id /\ r.log_date = key}
        row == [habit_id |-> habit_id, log_date |-> key,
                completed |-> AdaptBool(completed)]
    IN /\ \E h \in habits.rows : h.id = habit_id
       /\ conflict = {} => BagCardinality(habit_logs) < MaxLogs
       /\ habit_logs' =
             IF conflict = {} THEN habit_logs (+) SetToBag({row})
             ELSE BagOf(habit_logs, LogRows \ conflict)
                     (+) [u \in {row} |-> RowCount(habit_id, key)]
       /\ logged' = Logged(habit_id, log_date, completed)
       /\ UNCHANGED <<habits, soft_deleted, today, in_logs, ret>>

\* The rows of S in the order of their ids.
RECURSIVE ById(_)
ById(S) ==
    IF S = {} THEN <<>>
    ELSE LET h == CHOOSE x \in S : \A y \in S : x.id <= y.id
         IN <<h>> \o ById(S \ {h})

\* get_all_habits ignoring active_only: every habit of the user.
get_all_habits_of_user(active_only, user_id) ==
    ById({h \in habits.rows : h.user_id = user_id})

\* get_all_habits(active_only, user_id)
get_all_habits(active_only, user_id) ==
    ById({h \in habits.rows :
             h.user_id = user_id /\ (active_only => h.is_active = 1)})

\* get_habit(habit_id): the row, or None
get_habit(habit_id) ==
    IF \E h \in habits.rows : h.id = habit_id
    THEN CHOOSE h \in habits.rows : h.id = habit_id
    ELSE None

\* The rows of the bag B as a list, ORDER BY log_date DESC.
RECURSIVE ByDateDesc(_)
ByDateDesc(B) ==
    IF BagToSet(B) = {} THEN <<>>
    ELSE LET r == CHOOSE x \in BagToSet(B) :
                     \A y \in BagToSet(B) : x.log_date.ord >= y.log_date.ord
         IN <<r>> \o ByDateDesc(B (-) SetToBag({r}))

\* x BETWEEN lo AND hi, on two ISO strings or on None (no bound given)
Between(x, lo, hi) == lo.ord <= x.ord /\ x.ord <= hi.ord

\* get_habit_logs(habit_id, start_date, end_date)
get_habit_logs(habit_id, start_date, end_date) ==
    IF start_date # None /\ end_date # None
    THEN ByDateDesc(BagOf(habit_logs,
             {r \in LogRows :
                 /\ r.habit_id = habit_id
                 /\ Between(r.log_date, AdaptDate(start_date), AdaptDate(end_date))}))
    ELSE ByDateDesc(BagOf(habit_logs, {r \in LogRows : r.habit_id = habit_id}))

\* CountCompletedRows without h.user_id = ?: the logs of every user's active
\* habits are counted.
CountCompletedRowsAnyUser(user_id, rows) ==
    BagCardinality(BagOf(habit_logs,
        {r \in rows :
            /\ \E h \in habits.rows : h.id = r.habit_id /\ h.is_active = 1
            /\ r.completed = 1}))

\* CountCompletedRows without h.is_active = 1: the logs of soft-deleted habits
\* are counted too.
CountCompletedRowsAnyHabit(user_id, rows) ==
    BagCardinality(BagOf(habit_logs,
        {r \in rows :
            /\ \E h \in habits.rows : h.id = r.habit_id /\ h.user_id = user_id
            /\ r.completed = 1}))

\* SELECT COUNT(*) FROM habit_logs hl JOIN habits h ON hl.habit_id = h.id
\* WHERE h.user_id = ? AND hl.completed = 1 AND h.is_active = 1 AND hl in rows
CountCompletedRows(user_id, rows) ==
    BagCardinality(BagOf(habit_logs,
        {r \in rows :
            /\ \E h \in habits.rows :
                  h.id = r.habit_id /\ h.user_id = user_id /\ h.is_active = 1
            /\ r.completed = 1}))

\* StreakWalk counting a day as soon as one active habit is completed on it.
RECURSIVE StreakWalkAnyHabit(_, _, _, _)
StreakWalkAnyHabit(user_id, total, check_date, rounds) ==
    IF rounds = 0 THEN 0
    ELSE IF rounds = 1
    THEN LET day_completed ==
                 CountCompletedRows(user_id,
                     {r \in LogRows : r.log_date = isoformat(DateObj(check_date))})
         IN IF day_completed > 0 /\ total > 0 THEN 1 ELSE 0
    ELSE LET half == rounds \div 2
             first == StreakWalkAnyHabit(user_id, total, check_date, half)
         IN IF first < half THEN first
            ELSE half + StreakWalkAnyHabit(user_id, total, check_date - half,
                                           rounds - half)

\* The while loop of get_user_stats: of the next `rounds` rounds of the loop,
\* the first of which queries check_date, the number that add a day to
\* current_streak; total is len(habits).  A round queries its day and either
\* adds it and steps check_date back or breaks, so no round follows one that
\* broke: a stretch of rounds is walked as its first half and, when every
\* round of that half added its day, the rest.  (The first half is walked
\* once: `first` ranges over the one value it gives.)
RECURSIVE StreakWalk(_, _, _, _)
StreakWalk(user_id, total, check_date, rounds) ==
    IF rounds = 0 THEN 0
    ELSE IF rounds = 1
    THEN LET day_completed ==
                 CountCompletedRows(user_id,
                     {r \in LogRows : r.log_date = isoformat(DateObj(check_date))})
         IN IF day_completed = total /\ total > 0 THEN 1 ELSE 0
    ELSE LET half == rounds \div 2
         IN CHOOSE n \in {IF first < half THEN first
                          ELSE half + StreakWalk(user_id, total, check_date - half,
                                                 rounds - half) :
                             first \in {StreakWalk(user_id, total, check_date, half)}} :
                TRUE

\* Round1 cutting the digits after the first decimal off.
Round1Down(x) == Frac((10 * x.num) \div x.den, 10)

\* round(x, 1) of the percentage x = [num, den]: the nearest tenth, a tie
\* going to the even one.
Round1(x) ==
    LET q == (10 * x.num) \div x.den
        r == (10 * x.num) % x.den
        tenths == IF 2 * r > x.den \/ (2 * r = x.den /\ q % 2 = 1) THEN q + 1 ELSE q
    IN Frac(tenths, 10)

\* get_user_stats starting its backward walk at yesterday.
get_user_stats_from_yesterday(user_id, start_date, end_date) ==
    LET user_habits == get_all_habits(TRUE, user_id)
        completed_today_count ==
            CountCompletedRows(user_id,
                {r \in LogRows : r.log_date = isoformat(DateObj(today))})
    IN IF user_habits = <<>>
       THEN [total_habits |-> 0, completion_rate |-> Zero,
             completed_today |-> FALSE, current_streak |-> 0]
       ELSE [total_habits |-> Len(user_habits),
             completion_rate |-> Zero,
             completed_today |-> completed_today_count = Len(user_habits),
             current_streak |-> StreakWalk(user_id, Len(user_habits), today - 1,
                                           SafetyLimit + 1)]

\* get_user_stats(user_id, start_date, end_date); None for a bound not given.
\* `if current_streak > 365: break` is tested after a round has added its day,
\* so the loop runs SafetyLimit + 1 rounds at most.
get_user_stats(user_id, start_date, end_date) ==
    LET start == IF start_date = None THEN DateObj(today - DefaultWindow) ELSE start_date
        end == IF end_date = None THEN DateObj(today) ELSE end_date
        user_habits == get_all_habits(TRUE, user_id)
        completed == CountCompletedRows(user_id,
                         {r \in LogRows :
                             Between(r.log_date, AdaptDate(start), AdaptDate(end))})
        total_possible == Len(user_habits) * ((end.ord - start.ord) + 1)
        completion_rate == IF total_possible > 0 THEN Percent(completed, total_possible)
                           ELSE Zero
        completed_today_count ==
            CountCompletedRows(user_id,
                {r \in LogRows : r.log_date = isoformat(DateObj(today))})
        completed_today == IF user_habits # <<>>
                           THEN completed_today_count = Len(user_habits) ELSE FALSE
    IN IF user_habits = <<>>
       THEN [total_habits |-> 0, completion_rate |-> Zero,
             completed_today |-> FALSE, current_streak |-> 0]
       ELSE [total_habits |-> Len(user_habits),
             completion_rate |-> Round1(completion_rate),
             completed_today |-> completed_today,
             current_streak |-> StreakWalk(user_id, Len(user_habits), today, SafetyLimit + 1)]

(***************************************************************************)
(* The store under the operations of HabitDatabase.                        *)
(***************************************************************************)
Init ==
    /\ EmptyStore
    /\ today = FirstToday
    /\ in_logs = <<>>
    /\ ret = NoCall

Next ==
    \/ \E user_id \in Users : add_habit(user_id)
    \/ \E habit_id \in HabitIds : delete_habit(habit_id)
    \/ \E habit_id \in HabitIds : hard_delete_habit(habit_id)
    \/ \E habit_id \in HabitIds, d \in Dates, completed \in BOOLEAN :
          log_habit(habit_id, DateObj(d), completed)
    \/ Tick

Spec == Init /\ [][Next]_vars

(***************************************************************************)
(* What the claims about the store speak of.                               *)
(***************************************************************************)
\* The rows habit_logs has for (habit_id, day), as a bag.
EntriesOf(habit_id, d) ==
    BagOf(habit_logs, {r \in LogRows : r.habit_id = habit_id /\ r.log_date = IsoStr(d)})

\* The one entry of (h, d) with the value c.
OneEntry(h, d, c) ==
    SetToBag({[habit_id |-> h, log_date |-> IsoStr(d),
               completed |-> IF c THEN 1 ELSE 0]})

\* C8: after any sequence of calls the store holds at most one LogEntry per
\* (habit, date) pair, whose completed value is that of the most recent
\* log_habit call for the pair; a log_habit call changes no entry of another
\* pair (so a pair never logged has no entry, and a pair's entry stays what
\* its own last call made it).
C8_OneEntryPerPairLastWriteWins ==
    \A h \in HabitIds, d \in Dates :
        /\ RowCount(h, IsoStr(d)) <= 1
        /\ EntriesOf(h, d) = IF <<h, d>> \in DOMAIN logged
                             THEN OneEntry(h, d, logged[<<h, d>>])
                             ELSE EmptyBag

\* A store where a pair whose last log_habit call passed completed = True has
\* its one entry, completed, beside the entry of another pair.
C8_Witness ==
    \E h \in HabitIds, d \in Dates :
        /\ EntriesOf(h, d) = OneEntry(h, d, TRUE)
        /\ BagCardinality(habit_logs) = 2

\* The rows of a list, as a set.
Range(s) == {s[i] : i \in DOMAIN s}

\* A delete_habit(h) step on a habit that is there: its row stays, with only
\* is_active flipped; every other row, and every log, is as it was, and
\* get_habit_logs(h) returns what it returned.  (A delete_habit(h) step on a
\* habit that is already in soft_deleted changes nothing; the steps looked at
\* are those that put h there.  What the queries return about h from then on
\* is SoftDeletedStaysQueryable.)
DeleteHabitOnlyFlipsFlag ==
    \A h \in soft_deleted' \ soft_deleted :
        delete_habit(h) /\ get_habit(h) # None =>
            LET row == get_habit(h)
                flipped == [row EXCEPT !.is_active = 0]
            IN /\ habits'.rows = (habits.rows \ {row}) \cup {flipped}
               /\ habits'.seq = habits.seq
               /\ habit_logs' = habit_logs
               /\ get_habit(h)' = flipped
               /\ get_habit_logs(h, None, None)' = get_habit_logs(h, None, None)

\* A habit delete_habit was called for is still there, inactive, returned by
\* get_all_habits with active_only = False and not with active_only = True,
\* and its logs are all returned by get_habit_logs.
SoftDeletedStaysQueryable ==
    \A h \in soft_deleted :
        /\ get_habit(h) # None
        /\ get_habit(h).is_active = 0
        /\ get_habit(h) \in Range(get_all_habits(FALSE, get_habit(h).user_id))
        /\ \A x \in Range(get_all_habits(TRUE, get_habit(h).user_id)) : x.id # h
        /\ Range(get_habit_logs(h, None, None)) = {r \in LogRows : r.habit_id = h}
        /\ \A d \in Dates :
              EntriesOf(h, d) = IF <<h, d>> \in DOMAIN logged
                                THEN OneEntry(h, d, logged[<<h, d>>])
                                ELSE EmptyBag

\* C9: delete_habit(h) only flips h's active flag: the record still exists
\* (get_habit, get_all_habits with active_only = False), every LogEntry of h
\* is unchanged and still returned by get_habit_logs(h), and h is no longer
\* returned by get_all_habits with active_only = True.
C9_DeleteHabitIsSoftDelete ==
    /\ []SoftDeletedStaysQueryable
    /\ [][DeleteHabitOnlyFlipsFlag]_vars

\* A store with a soft-deleted habit that still has two logs.
C9_Witness ==
    \E h \in soft_deleted : Len(get_habit_logs(h, None, None)) = 2

\* The active habits of a user, read off the table.
ActiveHabitsOf(user_id) ==
    {h \in habits.rows : h.user_id = user_id /\ h.is_active = 1}

\* The window arguments of get_user_stats: none given, or dates of the model.
WindowArgs == {DateObj(d) : d \in Dates} \cup {None}

\* The windows get_user_stats is asked about in every state of the store: the
\* default one, yesterday and today, and all the dates of the model.
StatsWindows ==
    {<<None, None>>,
     <<DateObj(today - 1), DateObj(today)>>,
     <<DateObj(Day0), DateObj(Day0 + MaxDate)>>}

\* C10: for a user with zero active habits get_user_stats returns
\* {total_habits: 0, completion_rate: 0, completed_today: False,
\* current_streak: 0} whatever the logs in the store, also when the user has
\* completed logs on habits that were soft-deleted.
C10_NoActiveHabitsGivesZeroStats ==
    \A u \in Users, w \in StatsWindows :
        ActiveHabitsOf(u) = {} =>
            get_user_stats(u, w[1], w[2]) =
                [total_habits |-> 0, completion_rate |-> Zero,
                 completed_today |-> FALSE, current_streak |-> 0]

\* A user whose only habit is soft-deleted and has a completed log today.
C10_Witness ==
    \E h \in habits.rows :
        /\ h.is_active = 0
        /\ ActiveHabitsOf(h.user_id) = {}
        /\ EntriesOf(h.id, today) = OneEntry(h.id, today, TRUE)

(***************************************************************************)
(* What the claims about get_user_stats speak of.                          *)
(***************************************************************************)
\* Habit h has a completed log on day d.
CompletedOn(h, d) ==
    \E r \in LogRows : r.habit_id = h /\ r.log_date = IsoStr(d) /\ r.completed = 1

\* The user has an active habit, and every active habit of the user has a
\* completed log on day d.
AllDone(user_id, d) ==
    /\ ActiveHabitsOf(user_id) # {}
    /\ \A h \in ActiveHabitsOf(user_id) : CompletedOn(h.id, d)

\* The number of consecutive days, walking backward from today, on which
\* AllDone holds: the walk halts at the first day on which it does not.  No
\* log of the model is dated before Day0.
JointRun(user_id) ==
    SetMax({n \in 0..(today - Day0 + 1) :
                \A k \in 0..(n - 1) : AllDone(user_id, today - k)})

C13_CompletedTodayIffAllDone ==
    \A u \in Users :
        get_user_stats(u, None, None).completed_today = AllDone(u, today)

\* A user with two active habits of which exactly one is completed today.
C13_Witness ==
    \E u \in Users :
        /\ Cardinality(ActiveHabitsOf(u)) = 2
        /\ \E h \in ActiveHabitsOf(u) : CompletedOn(h.id, today)
        /\ \E h \in ActiveHabitsOf(u) : ~CompletedOn(h.id, today)
        /\ get_user_stats(u, None, None).completed_today = FALSE

\* The window get_user_stats is asked about: the bounds given, and for a bound
\* not given the first and the last of the 7 days that end today.
WindowStart(start_date) == IF start_date = None THEN today - 6 ELSE start_date.ord

WindowEnd(end_date) == IF end_date = None THEN today ELSE end_date.ord

\* The (active habit, day of the window) pairs that have a completed log.
CompletedInWindow(user_id, lo, hi) ==
    {p \in {h.id : h \in ActiveHabitsOf(user_id)} \X (lo..hi) : CompletedOn(p[1], p[2])}

\* The percentage r is x / y rounded to one decimal: a whole number of tenths
\* that lies within a twentieth of x / y.
IsRoundedToTenth(r, x, y) ==
    /\ (10 * r.num) % r.den = 0
    /\ LET diff == r.num * y - x * r.den
       IN 20 * (IF diff < 0 THEN 0 - diff ELSE diff) <= y * r.den

\* C14: get_user_stats.completion_rate is 100 * (completed logs of the user's
\* active habits dated within the window) / (active habit count * days of the
\* window, both ends inclusive), rounded to one decimal; with the bounds
\* omitted the window is the 7 days ending today, so the denominator is
\* 7 * active habit count.
C14_CompletionRateOverWindow ==
    \A u \in Users, w \in StatsWindows :
        LET lo == WindowStart(w[1])
            hi == WindowEnd(w[2])
            n == Cardinality(ActiveHabitsOf(u))
        IN n > 0 =>
              /\ IsRoundedToTenth(get_user_stats(u, w[1], w[2]).completion_rate,
                     100 * Cardinality(CompletedInWindow(u, lo, hi)),
                     n * (hi - lo + 1))
              /\ w = <<None, None>> => n * (hi - lo + 1) = 7 * n

\* A user with one active habit and two completed logs in the default window:
\* 2 of 7, 28.57..., is reported as 28.6.
C14_Witness ==
    \E u \in Users :
        /\ Cardinality(ActiveHabitsOf(u)) = 1
        /\ Cardinality(CompletedInWindow(u, today - 6, today)) = 2
        /\ get_user_stats(u, None, None).completion_rate = Frac(286, 10)

(***************************************************************************)
(* The store of a user who has logged one habit every day for about a      *)
(* year, under get_user_stats.                                             *)
(***************************************************************************)
\* The lengths of the user's run of logged days: from one day short of the
\* safety limit of the walk to two days past it.
RunLengths == (SafetyLimit - 1)..(SafetyLimit + 2)

\* The rows log_habit has written for habit 1 on each of the n days that end
\* on day d, all completed.
YearOfLogs(d, n) ==
    SetToBag({[habit_id |-> 1, log_date |-> IsoStr(d - k), completed |-> 1] :
                 k \in 0..(n - 1)})

\* One user has added one habit and completed it on each of the n days up to
\* today, n in RunLengths.
InitYear ==
    /\ today = FirstToday
    /\ \E user_id \in Users, n \in RunLengths :
          /\ habits = [rows |-> {[id |-> 1, user_id |-> user_id, is_active |-> 1]},
                       seq |-> 1]
          /\ habit_logs = YearOfLogs(today, n)
          /\ logged = [p \in {1} \X ((today - n + 1)..today) |-> TRUE]
    /\ soft_deleted = {}
    /\ in_logs = <<>>
    /\ ret = NoCall

\* stats = db.get_user_stats(username), or with a window given
CallUserStats(user_id, start_date, end_date) ==
    /\ Idle
    /\ ret' = [op |-> "get_user_stats", user_id |-> user_id,
               start_date |-> start_date, end_date |-> end_date,
               value |-> get_user_stats(user_id, start_date, end_date)]
    /\ UNCHANGED <<habits, habit_logs, logged, soft_deleted, today, in_logs>>

NextYear ==
    \/ \E user_id \in Users : CallUserStats(user_id, None, None)
    \/ Return
    \/ \E d \in Dates, completed \in BOOLEAN :
          Idle /\ log_habit(1, DateObj(d), completed)
    \/ Tick

SpecYear == InitYear /\ [][NextYear]_vars

\* C12: the backward walk of get_user_stats is bounded at 365: current_streak
\* never exceeds 365, and when every active habit is completed on each of the
\* 365 (or more) consecutive days ending today, current_streak is exactly 365.
C12_WalkBoundedAt365 ==
    ret.op = "get_user_stats" =>
        /\ ret.value.current_streak <= 365
        /\ (\A k \in 0..364 : AllDone(ret.user_id, today - k)) =>
               ret.value.current_streak = 365

(***************************************************************************)
(* The engine as a whole: the metrics functions on the lists of            *)
(* SpecMetrics, and get_user_stats on the store of a user who has logged   *)
(* the first of their habits on the last few days.                         *)
(***************************************************************************)
InitStats ==
    /\ today = FirstToday
    /\ \E user_id \in Users, k \in 1..MaxHabits, n \in 0..MaxLogs :
          /\ habits = [rows |-> {[id |-> i, user_id |-> user_id, is_active |-> 1] :
                                    i \in 1..k},
                       seq |-> k]
          /\ habit_logs = YearOfLogs(today, n)
          /\ logged = [p \in {1} \X ((today - n + 1)..today) |-> TRUE]
    /\ soft_deleted = {}
    /\ in_logs = <<>>
    /\ ret = NoCall

InitEngine == InitMetrics \/ InitStats

NextEngine ==
    \/ NextMetrics
    \/ \E user_id \in Users, start_date \in WindowArgs, end_date \in WindowArgs :
          CallUserStats(user_id, start_date, end_date)

SpecEngine == InitEngine /\ [][NextEngine]_vars

\* The percentage p lies in the closed range 0..100.
InRange(p) == p.num >= 0 /\ p.num <= 100 * p.den

\* The percentages of the call ret records, calculate_consistency aside, are
\* in range.
RatiosInRange ==
    /\ ret.op = "calculate_daily_completion" => InRange(ret.value)
    /\ ret.op = "calculate_weekly_stats" =>
          \A week \in DOMAIN ret.value : InRange(ret.value[week])
    /\ ret.op = "calculate_monthly_summary" => InRange(ret.value.completion_rate)
    /\ ret.op = "get_user_stats" => InRange(ret.value.completion_rate)

MondayOf(d) == d - ((d - Ordinal(2024, 1, 1)) % 7)

\* The entries of logs dated in the week that starts on Monday m and in
\* [lo, hi], as positions of logs.
EntriesOfWeek(logs, m, lo, hi) ==
    {i \in DOMAIN logs :
        /\ MondayOf(LogDay(logs[i])) = m
        /\ lo <= LogDay(logs[i]) /\ LogDay(logs[i]) <= hi}

\* The Mondays of the weeks that have a day in [lo, hi].
WeeksOfRange(lo, hi) == {MondayOf(d) : d \in lo..hi}

\* C16: calculate_weekly_stats(allLogs, startDate, endDate) returns a mapping
\* that has one key for every Monday-anchored week containing at least one
\* date of [startDate, endDate], and a week whose in-range days have no log
\* entries at all is in the mapping with value 0.0.
C16_EveryWeekOfRangeHasKey ==
    ret.op = "calculate_weekly_stats" =>
        /\ DOMAIN ret.value = {IsoStr(m) : m \in WeeksOfRange(ret.start_date, ret.end_date)}
        /\ \A m \in WeeksOfRange(ret.start_date, ret.end_date) :
              EntriesOfWeek(in_logs, m, ret.start_date, ret.end_date) = {} =>
                  /\ IsoStr(m) \in DOMAIN ret.value
                  /\ ret.value[IsoStr(m)] = Zero

\* C17: in the result of calculate_weekly_stats every key is the Monday of its
\* week, and the value of a week is 100 * (completed entries) / (all entries)
\* over exactly the entries dated both in that week and in
\* [startDate, endDate]: days without entries add nothing, and entries dated
\* outside the range are never counted, also when their week is partly in
\* range.
C17_WeekValueOverEntriesInRange ==
    ret.op = "calculate_weekly_stats" =>
        \A key \in DOMAIN ret.value :
            LET entries == EntriesOfWeek(in_logs, key.ord, ret.start_date, ret.end_date)
                done == {i \in entries : Truthy(in_logs[i].completed)}
            IN /\ key.type = "str"
               /\ key.ord \in WeeksOfRange(ret.start_date, ret.end_date)
               /\ entries # {}
               /\ ret.value[key] = Percent(Cardinality(done), Cardinality(entries))

\* A week that is partly in range: its entry in range is not completed, its
\* entry after the range is, and the value of the week is 0.
C17_Witness ==
    /\ ret.op = "calculate_weekly_stats"
    /\ \E key \in DOMAIN ret.value, i \in DOMAIN in_logs :
          /\ MondayOf(LogDay(in_logs[i])) = key.ord
          /\ LogDay(in_logs[i]) > ret.end_date
          /\ Truthy(in_logs[i].completed)
          /\ ret.value[key] = Zero

\* C18: get_habit_completion_trend(habitLogs, windowDays) with windowDays >= 1
\* returns exactly windowDays entries, dated today-(windowDays-1) .. today in
\* ascending order, each date once; an entry's completed value is that of the
\* log entry for its date, and false when no log entry has that date.
C18_TrendCoversWindowWithLoggedValues ==
    ret.op = "get_habit_completion_trend" /\ ret.days >= 1 =>
        /\ Len(ret.value) = ret.days
        /\ \A i \in DOMAIN ret.value :
              LET d == today - (ret.days - 1) + (i - 1)
                  entries == {j \in DOMAIN in_logs : LogDay(in_logs[j]) = d}
              IN /\ ret.value[i].date = DateObj(d)
                 /\ IF entries = {} THEN ret.value[i].completed = 0
                    ELSE \E j \in entries :
                            ret.value[i].completed = in_logs[j].completed

(***************************************************************************)
(* What the claims about calculate_monthly_summary and                     *)
(* calculate_daily_completion speak of.                                    *)
(***************************************************************************)
\* The first day of the month after (month, year).
NextMonthStart(month, year) ==
    IF month = 12 THEN Ordinal(year + 1, 1, 1) ELSE Ordinal(year, month + 1, 1)

\* The entries of logs dated in (month, year), as positions of logs.
EntriesOfMonth(logs, month, year) ==
    {i \in DOMAIN logs :
        /\ Ordinal(year, month, 1) <= LogDay(logs[i])
        /\ LogDay(logs[i]) < NextMonthStart(month, year)}

\* C19: calculate_monthly_summary(allLogs, month, year) considers only the
\* entries dated in that month and year: total_completions is the number of
\* completed entries among them, completion_rate is 100 * total_completions /
\* their number, total_habits the number of distinct habit ids and
\* days_tracked the number of distinct dates among them; when no entry matches
\* it returns all zeros, completion_rate 0.0, without a division error.
C19_MonthlySummaryOverEntriesOfMonth ==
    ret.op = "calculate_monthly_summary" =>
        LET entries == EntriesOfMonth(in_logs, ret.month, ret.year)
            done == {i \in entries : Truthy(in_logs[i].completed)}
        IN /\ ret.value.total_completions = Cardinality(done)
           /\ ret.value.total_habits = Cardinality({in_logs[i].habit_id : i \in entries})
           /\ ret.value.days_tracked = Cardinality({LogDay(in_logs[i]) : i \in entries})
           /\ ret.value.completion_rate =
                  IF entries = {} THEN Zero
                  ELSE Percent(Cardinality(done), Cardinality(entries))
           /\ entries = {} =>
                  ret.value = [total_habits |-> 0, total_completions |-> 0,
                               completion_rate |-> Zero, days_tracked |-> 0]

\* A summary over a list of two entries: a completed one in the month asked
\* for, and one of another month (or of the same month of another year).
C19_Witness ==
    /\ ret.op = "calculate_monthly_summary"
    /\ Len(in_logs) = 2
    /\ Cardinality(EntriesOfMonth(in_logs, ret.month, ret.year)) = 1
    /\ ret.value.total_habits = 1
    /\ ret.value.days_tracked = 1
    /\ ret.value.completion_rate = Frac(100, 1)

\* C20: calculate_daily_completion(logs) is 100 * (entries with completed
\* true) / (entries) for every non-empty input and 0.0 for the empty input
\* ([true] gives 100.0, [true, false] gives 50.0); it is 100 exactly when the
\* input is non-empty and every entry is completed.
C20_DailyCompletionIsShareOfCompleted ==
    /\ ret.op = "calculate_daily_completion" =>
          LET done == {i \in DOMAIN in_logs : Truthy(in_logs[i].completed)}
          IN /\ in_logs = <<>> => ret.value = Zero
             /\ in_logs # <<>> => ret.value = Frac(100 * Cardinality(done), Len(in_logs))
             /\ ret.value = Frac(100, 1) <=>
                   (in_logs # <<>> /\ done = DOMAIN in_logs)
    /\ calculate_daily_completion(<<>>) = Zero
    /\ calculate_daily_completion(<<[completed |-> 1]>>) = Frac(100, 1)
    /\ calculate_daily_completion(<<[completed |-> 1], [completed |-> 0]>>) = Frac(50, 1)

\* A call on two entries of which one is completed: 50.0.
C20_Witness ==
    /\ ret.op = "calculate_daily_completion"
    /\ Len(in_logs) = 2
    /\ Truthy(in_logs[1].completed) /\ ~Truthy(in_logs[2].completed)
    /\ ret.value = Frac(50, 1)

(***************************************************************************)
(* What the claim about calculate_consistency speaks of.                   *)
(***************************************************************************)
\* C21: calculate_consistency(habitLogs, windowDays) returns 100 * (number of
\* completed entries in habitLogs) / windowDays when windowDays > 0, counting
\* every entry passed in whatever its date, and returns 0.0 when
\* windowDays = 0.
C21_ConsistencyIsCompletedOverDays ==
    ret.op = "calculate_consistency" =>
        /\ ret.days > 0 =>
              ret.value = Frac(100 * Cardinality(CompletedEntries(in_logs)), ret.days)
        /\ ret.days = 0 => ret.value = Zero

\* A call with windowDays = 1 on two completed entries of different dates,
\* one of them today's: both are counted, 200.0.
C21_Witness ==
    /\ ret.op = "calculate_consistency"
    /\ ret.days = 1
    /\ Len(in_logs) = 2
    /\ LogDay(in_logs[1]) = today /\ LogDay(in_logs[2]) < today
    /\ CompletedEntries(in_logs) = {1, 2}
    /\ ret.value = Frac(200, 1)

(***************************************************************************)
(* The friends leaderboard of the sidebar (src/app.py 203-243): one entry  *)
(* per user from get_user_stats, sorted, the first three decorated.        *)
(***************************************************************************)
\* The USER_i_USERNAME values of the environment, in the order of i.
Usernames == <<"asha", "ben", "cara", "dev", "emil">>

\* get_all_usernames(): the users of the configuration that are not admin, in
\* the order they were read.
get_all_usernames == SubSeq(Usernames, 1, MaxUsers)

\* The loop that fills leaderboard_data from the first n usernames.
RECURSIVE LeaderboardData(_)
LeaderboardData(n) ==
    IF n = 0 THEN <<>>
    ELSE LET username == get_all_usernames[n]
             stats == get_user_stats(username, None, None)
         IN Append(LeaderboardData(n - 1),
                   [username |-> username,
                    completed_today |-> stats.completed_today,
                    streak |-> stats.current_streak,
                    completion_rate |-> stats.completion_rate,
                    total_habits |-> stats.total_habits])

\* KeyLE comparing the streaks only.
KeyLEStreakOnly(a, b) == a.streak <= b.streak

\* (a["streak"], a["completion_rate"]) <= (b["streak"], b["completion_rate"]):
\* Python compares tuples item by item, the first items that differ deciding.
KeyLE(a, b) ==
    \/ a.streak < b.streak
    \/ /\ a.streak = b.streak
       /\ a.completion_rate.num * b.completion_rate.den
             <= b.completion_rate.num * a.completion_rate.den

\* One insertion of a stable ascending sort by key: x goes after every entry
\* whose key is less than or equal to its own.
RECURSIVE InsertByKey(_, _)
InsertByKey(x, s) ==
    IF s = <<>> THEN <<x>>
    ELSE IF KeyLE(Head(s), x) THEN <<Head(s)>> \o InsertByKey(x, Tail(s))
         ELSE <<x>> \o s

\* A stable ascending sort by key.
RECURSIVE SortedByKey(_)
SortedByKey(data) ==
    IF data = <<>> THEN <<>>
    ELSE InsertByKey(data[Len(data)], SortedByKey(SubSeq(data, 1, Len(data) - 1)))

\* SortLeaderboard as an ascending sort that is then reversed.
SortLeaderboardAscReversed(data) == Reversed(SortedByKey(data))

\* leaderboard_data.sort(key=..., reverse=True): list.sort reverses the list,
\* sorts it ascending and stable, and reverses the result.
SortLeaderboard(data) == Reversed(SortedByKey(Reversed(data)))

\* rank_emoji with the medals given by position alone.
rank_emoji_by_position(idx, user_data) ==
    IF idx = 0 THEN "gold"
    ELSE IF idx = 1 THEN "silver"
    ELSE IF idx = 2 THEN "bronze"
    ELSE ""

\* The rank emoji of the entry at index idx (from 0) of the sorted list.
rank_emoji(idx, user_data) ==
    IF idx = 0 /\ user_data.streak > 0 THEN "gold"
    ELSE IF idx = 1 /\ user_data.streak > 0 THEN "silver"
    ELSE IF idx = 2 /\ user_data.streak > 0 THEN "bronze"
    ELSE ""

\* The buttons of the leaderboard, in the order they are drawn.
LeaderboardButtons(data) ==
    LET sorted == SortLeaderboard(data)
    IN [i \in DOMAIN sorted |->
           [username |-> sorted[i].username,
            rank_emoji |-> rank_emoji(i - 1, sorted[i]),
            is_done |-> sorted[i].completed_today,
            streak |-> sorted[i].streak,
            completion_rate |-> sorted[i].completion_rate]]

\* The rows log_habit has written for habit_id on the days of the set days,
\* all completed.
CompletedRows(habit_id, days) ==
    {[habit_id |-> habit_id, log_date |-> IsoStr(d), completed |-> 1] : d \in days}

\* The stores of the leaderboard: user i has no habit, or has the habit of
\* id i and has completed it on some of the last three days.
InitBoard ==
    /\ today = FirstToday
    /\ \E owners \in SUBSET (1..MaxUsers),
          done \in [1..MaxUsers -> SUBSET ((FirstToday - 2)..FirstToday)] :
          /\ \A i \in 1..MaxUsers : i \notin owners => done[i] = {}
          /\ habits = [rows |-> {[id |-> i, user_id |-> get_all_usernames[i],
                                  is_active |-> 1] : i \in owners},
                       seq |-> MaxUsers]
          /\ habit_logs = SetToBag(UNION {CompletedRows(i, done[i]) : i \in owners})
          /\ logged = [p \in UNION {{i} \X done[i] : i \in owners} |-> TRUE]
    /\ soft_deleted = {}
    /\ in_logs = <<>>
    /\ ret = NoCall

\* The sidebar is drawn: the entries are gathered, sorted and decorated.
CallLeaderboard ==
    /\ Idle
    /\ LET leaderboard_data == LeaderboardData(Len(get_all_usernames))
       IN ret' = [op |-> "leaderboard", data |-> leaderboard_data,
                  value |-> LeaderboardButtons(leaderboard_data)]
    /\ UNCHANGED <<habits, habit_logs, logged, soft_deleted, today, in_logs>>

NextBoard ==
    \/ CallLeaderboard
    \/ Return
    \/ Tick

SpecBoard == InitBoard /\ [][NextBoard]_vars

(***************************************************************************)
(* What the claims about the leaderboard speak of.                         *)
(***************************************************************************)
\* The completion rate of entry a is greater than or equal to that of b.
RateGE(a, b) ==
    a.completion_rate.num * b.completion_rate.den
        >= b.completion_rate.num * a.completion_rate.den

SameKey(a, b) == a.streak = b.streak /\ a.completion_rate = b.completion_rate

\* The position of the user's entry in a list of entries.
PositionOf(username, entries) ==
    CHOOSE i \in DOMAIN entries : entries[i].username = username

\* An entry of the example of C22.
Entry(username, streak, rate) ==
    [username |-> username, completed_today |-> FALSE, streak |-> streak,
     completion_rate |-> Frac(rate, 1), total_habits |-> 1]

\* C22: the leaderboard is ordered by current streak descending and, among
\* entries of equal streak, by completion rate descending: of two entries, the
\* one placed first has the greater streak, or the same streak and a
\* completion rate at least as great (streaks [5,5,3] with rates [80,90,100]
\* are ordered (5,90), (5,80), (3,100)).
C22_OrderedByStreakThenRate ==
    /\ ret.op = "leaderboard" =>
          /\ {ret.value[i].username : i \in DOMAIN ret.value}
                = {ret.data[i].username : i \in DOMAIN ret.data}
          /\ Len(ret.value) = Len(ret.data)
          /\ \A i, j \in DOMAIN ret.value :
                i < j =>
                   LET a == ret.value[i]
                       b == ret.value[j]
                   IN \/ a.streak > b.streak
                      \/ a.streak = b.streak /\ RateGE(a, b)
    /\ SortLeaderboard(<<Entry("asha", 5, 80), Entry("ben", 5, 90),
                         Entry("cara", 3, 100)>>)
          = <<Entry("ben", 5, 90), Entry("asha", 5, 80), Entry("cara", 3, 100)>>

\* A leaderboard whose input has an entry of lower rate before one of the
\* same streak, 1 or more, and a higher rate: the two are drawn the other way
\* round.
C22_Witness ==
    /\ ret.op = "leaderboard"
    /\ \E i, j \in DOMAIN ret.data :
          /\ i < j
          /\ ret.data[i].streak = ret.data[j].streak
          /\ ret.data[i].streak >= 1
          /\ ~RateGE(ret.data[i], ret.data[j])
          /\ PositionOf(ret.data[j].username, ret.value)
                < PositionOf(ret.data[i].username, ret.value)

\* C23: the ranking is stable: two entries with identical (streak, completion
\* rate) keys are drawn in the same relative order as in the input sequence,
\* although the sort is in descending order.
C23_RankingIsStable ==
    ret.op = "leaderboard" =>
        \A i, j \in DOMAIN ret.data :
            i < j /\ SameKey(ret.data[i], ret.data[j]) =>
                PositionOf(ret.data[i].username, ret.value)
                    < PositionOf(ret.data[j].username, ret.value)

\* A leaderboard where the first and the last user of the input have the same
\* key, with a streak of 1 or more, and a user between them has a greater
\* one, so that the sort moves entries.
C23_Witness ==
    /\ ret.op = "leaderboard"
    /\ LET n == Len(ret.data)
       IN /\ SameKey(ret.data[1], ret.data[n])
          /\ ret.data[1].streak >= 1
          /\ ret.data[2].streak > ret.data[1].streak
          /\ PositionOf(ret.data[2].username, ret.value) = 1
          /\ PositionOf(ret.data[1].username, ret.value)
                < PositionOf(ret.data[n].username, ret.value)

\* C24: an entry receives a rank decoration (gold, silver, bronze for
\* positions 1, 2, 3) if and only if it is in one of the first three positions
\* of the ranked order and its streak is greater than 0: an entry of streak 0
\* never receives one, even in positions 1 to 3, and no entry beyond position
\* 3 receives one.
C24_MedalsForTopThreeWithStreak ==
    ret.op = "leaderboard" =>
        \A i \in DOMAIN ret.value :
            LET entry == ret.value[i]
            IN /\ entry.rank_emoji # "" <=> (i <= 3 /\ entry.streak > 0)
               /\ entry.rank_emoji # "" =>
                     entry.rank_emoji = <<"gold", "silver", "bronze">>[i]
               /\ entry.streak = 0 => entry.rank_emoji = ""
               /\ i > 3 => entry.rank_emoji = ""

\* A leaderboard of four or more users whose first two have a streak and a
\* medal and whose third has streak 0 and none.
C24_Witness ==
    /\ ret.op = "leaderboard"
    /\ Len(ret.value) >= 4
    /\ ret.value[1].rank_emoji = "gold"
    /\ ret.value[2].rank_emoji = "silver"
    /\ ret.value[3].streak = 0
    /\ ret.value[3].rank_emoji = ""

\* A leaderboard whose fourth entry has a streak: the case of C24 of an entry
\* beyond position 3.
FourthHasStreak ==
    ret.op = "leaderboard" /\ Len(ret.value) >= 4 /\ ret.value[4].streak > 0

(***************************************************************************)
(* The metrics functions under a clock that moves on while the caller      *)
(* holds a result, so that a call can be repeated on a later date.         *)
(***************************************************************************)
\* The system clock moves on to the next day while the result of a call is
\* held; ret notes the date the result is held since.
Pass ==
    /\ ~Idle
    /\ today < Day0 + MaxDate
    /\ today' = today + 1
    /\ ret' = [f \in (DOMAIN ret) \cup {"since"} |->
                  IF f = "since" THEN (IF "since" \in DOMAIN ret THEN ret.since ELSE today)
                  ELSE ret[f]]
    /\ UNCHANGED <<habits, habit_logs, logged, soft_deleted, in_logs>>

NextClock ==
    \/ NextMetrics
    \/ Pass

SpecClock == InitMetrics /\ [][NextClock]_vars

\* The result ret records is of an earlier system date than today's.
HeldOverNight == ret.op \in MetricsOps /\ "since" \in DOMAIN ret

\* The call ret records reads date.today(): calculate_streak without
\* current_date, and get_habit_completion_trend.
ReadsToday ==
    \/ ret.op = "calculate_streak" /\ ret.current_date = None
    \/ ret.op = "get_habit_completion_trend"

\* C25 as claimed: every metrics function is deterministic in its arguments:
\* two calls of any of the six with identical arguments return identical
\* output, regardless of when the two calls are made, also when the system
\* date differs between them.  (The call ret records, repeated now, returns
\* what ret records.)
C25_DeterministicWhateverTheDate ==
    ret.op \in MetricsOps => Recall(in_logs) = ret.value

\* C25 as amended: calculate_daily_completion, calculate_consistency,
\* calculate_weekly_stats, calculate_monthly_summary, and calculate_streak
\* with current_date given, return identical output for identical arguments
\* whenever the calls are made; calculate_streak without current_date and
\* get_habit_completion_trend do so for calls made on the same system date,
\* and the trend of a window of one day or more differs when the date does.
C25_DeterministicGivenTheDate ==
    ret.op \in MetricsOps =>
        /\ ~ReadsToday => Recall(in_logs) = ret.value
        /\ ~HeldOverNight => Recall(in_logs) = ret.value
        /\ HeldOverNight /\ ret.op = "get_habit_completion_trend" /\ ret.days >= 1 =>
              Recall(in_logs) # ret.value

\* A result of calculate_streak with current_date given, 1 or more, held
\* since the day before, on a list with a completed entry on the new date.
C25_Witness ==
    /\ HeldOverNight
    /\ ret.since < today
    /\ ret.op = "calculate_streak"
    /\ ret.current_date # None
    /\ HasCompleted(in_logs, today)
    /\ ret.value.current_streak >= 1

(***************************************************************************)
(* What the claim about the order of the input speaks of.                  *)
(***************************************************************************)
\* The permutations of 1..n.
Perms(n) == {f \in [1..n -> 1..n] : \A i, j \in 1..n : f[i] = f[j] => i = j}

\* logs in the order f gives.
Permuted(logs, f) == [i \in 1..Len(logs) |-> logs[f[i]]]

\* At most one entry per (habit, date).
OnePerHabitDate(logs) ==
    \A i, j \in DOMAIN logs :
        logs[i].habit_id = logs[j].habit_id /\ LogDay(logs[i]) = LogDay(logs[j]) => i = j

\* Every permutation of the list gives the result ret records.
OrderIrrelevant ==
    \A f \in Perms(Len(in_logs)) : Recall(Permuted(in_logs, f)) = ret.value

\* C26 as claimed: the order of the input log sequence is irrelevant: for log
\* sequences with at most one entry per (habit, date), every permutation of
\* the input gives the same result from each of the six metrics functions.
C26_OrderIrrelevantForAllSix ==
    ret.op \in MetricsOps /\ OnePerHabitDate(in_logs) => OrderIrrelevant

\* C26 as amended: for log sequences with at most one entry per (habit, date),
\* every permutation of the input gives the same result from
\* calculate_streak, calculate_daily_completion, calculate_consistency,
\* calculate_weekly_stats and calculate_monthly_summary; it gives the same
\* result from get_habit_completion_trend when the sequence has at most one
\* entry per date.  (The trend reports the first entry of a date it finds.)
C26_OrderIrrelevantOnePerDateForTrend ==
    /\ ret.op \in MetricsOps \ {"get_habit_completion_trend"}
          /\ OnePerHabitDate(in_logs) => OrderIrrelevant
    /\ ret.op = "get_habit_completion_trend" /\ OnePerDate(in_logs) => OrderIrrelevant

\* A trend over two days or more from a list of date objects that has the
\* completed entry of today before the completed entry of yesterday.
C26_Witness ==
    /\ ret.op = "get_habit_completion_trend"
    /\ ret.days >= 2
    /\ Len(in_logs) = 2
    /\ in_logs[1].log_date = DateObj(today) /\ in_logs[2].log_date = DateObj(today - 1)
    /\ CompletedEntries(in_logs) = {1, 2}
    /\ ret.value[ret.days].completed = 1 /\ ret.value[ret.days - 1].completed = 1

\* A streak of 2 from a list that has its two completed days in ascending
\* order, which the sort turns round.
StreakOfUnsortedList ==
    /\ ret.op = "calculate_streak"
    /\ Len(in_logs) = 2
    /\ LogDay(in_logs[1]) < LogDay(in_logs[2])
    /\ ret.value.current_streak = 2

(***************************************************************************)
(* The store under the operations of HabitDatabase as src/app.py calls     *)
(* them: a habit is logged for today (app.py 314, 465: the days before are *)
(* read-only), and the history of a habit builds up as the days pass.      *)
(***************************************************************************)
InitToday ==
    /\ EmptyStore
    /\ today = FirstToday
    /\ in_logs = <<>>
    /\ ret = NoCall

NextToday ==
    \/ \E user_id \in Users : add_habit(user_id)
    \/ \E habit_id \in HabitIds : delete_habit(habit_id)
    \/ \E habit_id \in HabitIds : hard_delete_habit(habit_id)
    \/ \E habit_id \in HabitIds, completed \in BOOLEAN :
          log_habit(habit_id, DateObj(today), completed)
    \/ Tick

SpecToday == InitToday /\ [][NextToday]_vars

(***************************************************************************)
(* What the claims about get_user_stats under the operations of the store  *)
(* speak of.                                                               *)
(***************************************************************************)
\* The ids of the habits of a user, active or not.
HabitsOwnedBy(user_id) == {h.id : h \in {x \in habits.rows : x.user_id = user_id}}

\* The step is an operation of the user on their own data: add_habit for the
\* user, or log_habit or delete_habit on a habit the user owns.
StepOfUser(user_id) ==
    \/ add_habit(user_id)
    \/ \E h \in HabitsOwnedBy(user_id) :
          \/ delete_habit(h)
          \/ \E completed \in BOOLEAN : log_habit(h, DateObj(today), completed)

\* C27: statistics of a user depend only on that user's own data: add_habit
\* for user A, and log_habit or delete_habit applied to a habit owned by user
\* A, leave get_user_stats(B) unchanged for every other user B, in any store
\* state.
C27_OtherUsersStatsUnchanged ==
    [][\A a \in Users :
          (habits' # habits \/ habit_logs' # habit_logs) /\ StepOfUser(a) =>
              \A b \in Users \ {a} :
                  get_user_stats(b, None, None)' = get_user_stats(b, None, None)]_vars

\* A store where two users have an active habit each, both with a completed
\* log today, so that each has a streak the other's operations could touch.
C27_Witness ==
    \E a \in Users, b \in Users :
        /\ a # b
        /\ get_user_stats(a, None, None).current_streak = 1
        /\ get_user_stats(b, None, None).current_streak = 1
        /\ get_user_stats(b, None, None).completion_rate = Frac(143, 10)

\* C28: in every reachable store state and for every user, get_user_stats
\* returns completed_today = true if and only if it returns
\* current_streak >= 1.
C28_CompletedTodayIffStreakPositive ==
    \A u \in Users :
        LET stats == get_user_stats(u, None, None)
        IN stats.completed_today <=> stats.current_streak >= 1

\* A user with an active habit completed today and yesterday, and a
\* soft-deleted habit: completed_today is true and the streak is 2.
C28_Witness ==
    \E u \in Users :
        /\ Cardinality(ActiveHabitsOf(u)) = 1
        /\ \E h \in habits.rows : h.user_id = u /\ h.is_active = 0
        /\ get_user_stats(u, None, None).completed_today
        /\ get_user_stats(u, None, None).current_streak = 2

SetMin(S) == CHOOSE x \in S : \A y \in S : x <= y

\* calculate_streak(get_habit_logs(h), today).current_streak
HabitStreak(habit_id) ==
    calculate_streak(get_habit_logs(habit_id, None, None), DateObj(today)).current_streak

\* C29: the joint streak agrees with the per-habit engine: for a user with at
\* least one active habit, get_user_stats.current_streak equals the minimum
\* over the user's active habits h of
\* calculate_streak(get_habit_logs(h), today).current_streak, whenever that
\* minimum is below the safety bound of the backward walk.
C29_JointStreakIsMinOfHabitStreaks ==
    \A u \in Users :
        ActiveHabitsOf(u) # {} =>
            LET least == SetMin({HabitStreak(h.id) : h \in ActiveHabitsOf(u)})
            IN least < SafetyLimit =>
                  get_user_stats(u, None, None).current_streak = least

\* A user with two active habits, both completed today, so that each has a
\* streak of 1 and so has the user.
C29_Witness ==
    \E u \in Users :
        /\ Cardinality(ActiveHabitsOf(u)) = 2
        /\ \A h \in ActiveHabitsOf(u) : HabitStreak(h.id) = 1
        /\ get_user_stats(u, None, None).current_streak = 1

\* A user with two active habits whose streaks differ: the joint streak is
\* the lesser, 0.
HabitStreaksDiffer ==
    \E u \in Users :
        /\ {HabitStreak(h.id) : h \in ActiveHabitsOf(u)} = {0, 2}
        /\ get_user_stats(u, None, None).current_streak = 0

\* An add_habit(user) step: right after it get_user_stats(user) counts the new
\* habit and reports completed_today = false and current_streak = 0.
AddHabitResetsToday ==
    \A u \in Users :
        add_habit(u) =>
            \A before \in {get_user_stats(u, None, None)},
               after \in {get_user_stats(u, None, None)'} :
                /\ after.total_habits = before.total_habits + 1
                /\ after.completed_today = FALSE
                /\ after.current_streak = 0

\* A hard_delete_habit(h) step on a soft-deleted habit, which takes h and all
\* its logs out of the store: get_user_stats returns for every user, for the
\* default window and for all the dates of the model, what it returned while
\* h and its logs were there.
InactiveHabitIsAsIfGone ==
    \A h \in soft_deleted :
        hard_delete_habit(h) /\ get_habit(h) # None /\ get_habit(h).is_active = 0 =>
            \A u \in Users :
                /\ get_user_stats(u, None, None)' = get_user_stats(u, None, None)
                /\ get_user_stats(u, DateObj(Day0), DateObj(Day0 + MaxDate))'
                      = get_user_stats(u, DateObj(Day0), DateObj(Day0 + MaxDate))

\* While an active habit of the user has no completed log today,
\* completed_today is false and current_streak is 0; total_habits is the
\* number of the user's active habits.
UnloggedHabitHoldsStreakAtZero ==
    \A u \in Users :
        LET stats == get_user_stats(u, None, None)
        IN /\ stats.total_habits = Cardinality(ActiveHabitsOf(u))
           /\ (\E h \in ActiveHabitsOf(u) : ~CompletedOn(h.id, today)) =>
                 stats.completed_today = FALSE /\ stats.current_streak = 0

\* C30: changing the set of active habits re-bases the joint statistics over
\* the whole history: immediately after add_habit(user) get_user_stats(user)
\* reports completed_today = false and current_streak = 0, whatever they were
\* before, until the new habit is logged completed today; and after
\* delete_habit(h) get_user_stats of the owner is computed as if h and all its
\* logs did not exist, so logs of inactive habits never count toward
\* total_habits, completion_rate, completed_today or current_streak.
C30_ActiveSetChangeRebasesStats ==
    /\ []UnloggedHabitHoldsStreakAtZero
    /\ [][AddHabitResetsToday /\ InactiveHabitIsAsIfGone]_vars

\* A user whose first habit is completed today and yesterday and whose second
\* habit, added since, has no log: the streak of 2 is gone.
C30_Witness ==
    \E u \in Users :
        /\ Cardinality(ActiveHabitsOf(u)) = 2
        /\ \E h \in ActiveHabitsOf(u) :
              /\ HabitStreak(h.id) = 2
              /\ \A g \in ActiveHabitsOf(u) \ {h} :
                    g.id > h.id /\ get_habit_logs(g.id, None, None) = <<>>
        /\ get_user_stats(u, None, None).completed_today = FALSE
        /\ get_user_stats(u, None, None).current_streak = 0

\* A user with a streak whose soft-deleted habit has a completed log today and
\* an uncompleted one the day before: the case of C30 of a deleted habit whose
\* logs would change every statistic if they counted.
DeletedHabitHasLogs ==
    \E u \in Users, h \in soft_deleted :
        /\ get_habit(h) # None
        /\ get_habit(h).user_id = u
        /\ Len(get_habit_logs(h, None, None)) = 2
        /\ CompletedOn(h, today)
        /\ ActiveHabitsOf(u) # {}

====
